---- MODULE Spec2Model ----
(***************************************************************************)
(* SshControl (selfdrive/ui/qt/widgets/ssh_keys.cc): a settings button     *)
(* that links a GitHub username, fetches its public SSH keys and keeps     *)
(* both in the persistent Params store.                                    *)
(*                                                                         *)
(* Strings are TLA+ strings.  The button texts of the source are Arabic    *)
(* string literals; a TLA+ string holds ASCII only, so each literal is     *)
(* written as the list of its Unicode code points.  Two literals are equal *)
(* here exactly when they are equal in the source.                         *)
(***************************************************************************)
EXTENDS Naturals, Sequences, FiniteSets, TLC

\* ---------------------------------------------------------------- bounds
MaxNames == 3
MaxBodies == 3

NamePool == <<"octocat", "torvalds", "nasser", "u4", "u5", "u6">>
BodyPool == <<"ssh-rsa AAA", "ssh-ed25519 BBB", "ssh-rsa CCC", "k4", "k5", "k6">>

\* usernames a user can type into the dialog ("" is cancel or empty input)
Names == {NamePool[i] : i \in 1..MaxNames}
Answers == Names \cup {""}
\* response bodies the HTTP service can deliver
Bodies == {BodyPool[i] : i \in 1..MaxBodies}
Responses == Bodies \cup {""}

\* --------------------------------------------------------- string literals
KeyUsername == "GithubUsername"
KeySshKeys == "GithubSshKeys"
ParamKeys == {KeyUsername, KeySshKeys}

\* the literal the clicked handler compares text() with (line 13)
TextClickAdd == "ADD"
\* the literals refresh() and the clicked handler set (lines 37, 34, 16)
TextAdd == "U+0627 U+0636 U+0641"
TextRemove == "U+0625 U+0632 U+0627 U+0644 U+0629"
TextLoading == "U+062C U+0627 U+0631 U+0020 U+0627 U+0644 U+062A U+062D U+0645 U+064A U+0644"

VARIABLES
  params,          \* the Params store: a function from the keys present to their values
  text,            \* ButtonControl text (the button's label)
  username_label,  \* text of the QLabel username_label
  enabled,         \* ButtonControl enabled flag
  requests,        \* HttpRequest objects in flight, in creation order
  sent,            \* URLs of the GETs sent so far
  alert,           \* alerts the last handler showed, each with the display it was shown over
  last             \* the last handler that ran: its inputs and the state it started from

vars == <<params, text, username_label, enabled, requests, sent, alert, last>>

\* ------------------------------------------------------------ Params store
\* Params::get: the value, or the empty string when the key is absent
ParamsGet(p, key) == IF key \in DOMAIN p THEN p[key] ELSE ""

\* Params::put
ParamsPut(p, key, value) ==
  [k \in (DOMAIN p) \cup {key} |-> IF k = key THEN value ELSE p[k]]

\* Params::remove
ParamsRemove(p, key) == [k \in (DOMAIN p) \ {key} |-> p[k]]

\* every content of the store over the two keys
Stores ==
  UNION {[D -> Answers \cup Responses] : D \in SUBSET ParamKeys}

StoreContents ==
  {p \in Stores :
     /\ (KeyUsername \in DOMAIN p => p[KeyUsername] \in Answers)
     /\ (KeySshKeys \in DOMAIN p => p[KeySshKeys] \in Responses)}

\* ------------------------------------------------------------------ refresh
\* refresh() testing GithubUsername instead of GithubSshKeys
refresh_testUsername(p) ==
  LET param == ParamsGet(p, KeyUsername) IN
  IF Len(param) # 0
    THEN [username_label |-> ParamsGet(p, KeyUsername), text |-> TextRemove, enabled |-> TRUE]
    ELSE [username_label |-> "", text |-> TextAdd, enabled |-> TRUE]

\* refresh() without the final setEnabled(true)
refresh_noEnable(p) ==
  LET param == ParamsGet(p, KeySshKeys) IN
  IF Len(param) # 0
    THEN [username_label |-> ParamsGet(p, KeyUsername), text |-> TextRemove, enabled |-> FALSE]
    ELSE [username_label |-> "", text |-> TextAdd, enabled |-> FALSE]

\* refresh() flipping the enabled flag instead of setting it
refresh_toggle(p) ==
  LET param == ParamsGet(p, KeySshKeys) IN
  IF Len(param) # 0
    THEN [username_label |-> ParamsGet(p, KeyUsername), text |-> TextRemove, enabled |-> ~enabled]
    ELSE [username_label |-> "", text |-> TextAdd, enabled |-> ~enabled]

\* SshControl::refresh as the display it leaves for store p
refresh(p) ==
  LET param == ParamsGet(p, KeySshKeys) IN
  IF Len(param) # 0
    THEN [username_label |-> ParamsGet(p, KeyUsername), text |-> TextRemove, enabled |-> TRUE]
    ELSE [username_label |-> "", text |-> TextAdd, enabled |-> TRUE]

\* --------------------------------------------------------------- messages
AlertNoKeys(username) == "Username '" \o username \o "' has no keys on GitHub"
AlertTimeout == "Request timed out"
AlertNoUser(username) == "Username '" \o username \o "' doesn't exist on GitHub"
KeysUrl(username) == "https://github.com/" \o username \o ".keys"

\* the alert shown after refresh() instead of before it
Shown_afterRefresh(msg) ==
  [msg |-> msg, text |-> refresh(params).text, enabled |-> refresh(params).enabled]

\* an alert as shown: the message and the control's display under the dialog
Shown(msg) == [msg |-> msg, text |-> text, enabled |-> enabled]

NoInput == [answer |-> "", username |-> "", resp |-> "", success |-> FALSE, timeout |-> FALSE]
Pre == [params |-> params, text |-> text, username_label |-> username_label,
        enabled |-> enabled, requests |-> requests, sent |-> sent]
NoPre == [params |-> << >>, text |-> "", username_label |-> "",
          enabled |-> TRUE, requests |-> << >>, sent |-> << >>]

\* ------------------------------------------------------------- construction
\* SshControl::SshControl: ButtonControl(title, "", desc), then refresh()
Init ==
  /\ params \in StoreContents
  /\ text = refresh(params).text
  /\ username_label = refresh(params).username_label
  /\ enabled = refresh(params).enabled
  /\ requests = << >>
  /\ sent = << >>
  /\ alert = << >>
  /\ last = [op |-> "construct", prompted |-> FALSE, in |-> NoInput, pre |-> NoPre]

\* SshControl::getUserKeys: the new request is sent and stays in flight
getUserKeys(username) ==
  /\ requests' = Append(requests, [username |-> username, url |-> KeysUrl(username)])
  /\ sent' = Append(sent, KeysUrl(username))

\* the else branch forgetting params.remove("GithubUsername")
ClickRemove_keysOnly ==
  LET p2 == ParamsRemove(params, KeySshKeys) IN
  /\ params' = p2
  /\ text' = refresh(p2).text
  /\ username_label' = refresh(p2).username_label
  /\ enabled' = refresh(p2).enabled
  /\ UNCHANGED <<requests, sent>>

\* the clicked handler's else branch: remove both keys, then refresh()
ClickRemove ==
  LET p1 == ParamsRemove(params, KeyUsername)
      p2 == ParamsRemove(p1, KeySshKeys) IN
  /\ params' = p2
  /\ text' = refresh(p2).text
  /\ username_label' = refresh(p2).username_label
  /\ enabled' = refresh(p2).enabled
  /\ UNCHANGED <<requests, sent>>

\* the clicked handler's then branch: prompt, and fetch on a non-empty answer
ClickAdd(answer) ==
  IF Len(answer) > 0
    THEN /\ text' = TextLoading
         /\ enabled' = FALSE
         /\ getUserKeys(answer)
         /\ UNCHANGED <<params, username_label>>
    ELSE UNCHANGED <<params, text, username_label, enabled, requests, sent>>

\* a click reaching a disabled button too
Clickable_always == TRUE

\* ButtonControl emits clicked only while the button is enabled (setEnabled,
\* lines 17 and 39)
Clickable == enabled

\* ButtonControl::clicked; answer is what the user types if the input dialog
\* is shown
Click ==
  \E answer \in Answers :
    /\ Clickable
    /\ IF text = TextClickAdd THEN ClickAdd(answer) ELSE ClickRemove
    /\ alert' = << >>
    /\ last' = [op |-> "click", prompted |-> (text = TextClickAdd),
                in |-> [NoInput EXCEPT !.answer = answer], pre |-> Pre]

\* the puts running on every success, whatever the body
Stored_anyBody(resp, success) == success

\* the puts running on every non-empty body, without the success test
Stored_ignoresSuccess(resp, success) == ~(resp = "")

\* the completion handler persists on success with a non-empty body (lines 45-46)
Stored(resp, success) == success /\ ~(resp = "")

\* the handler writing GithubSshKeys only
DoneParams_keysOnly(username, resp, success) ==
  IF Stored(resp, success) THEN ParamsPut(params, KeySshKeys, resp) ELSE params

\* the handler persisting on every success, without the isEmpty test
DoneParams_emptyOk(username, resp, success) ==
  IF success
    THEN ParamsPut(ParamsPut(params, KeyUsername, username), KeySshKeys, resp)
    ELSE params

\* the store the completion handler leaves (lines 45-48)
DoneParams(username, resp, success) ==
  IF Stored(resp, success)
    THEN ParamsPut(ParamsPut(params, KeyUsername, username), KeySshKeys, resp)
    ELSE params

\* the two failure alerts exchanged
DoneAlerts_swapped(username, resp, success, timeout) ==
  IF success
    THEN IF ~(resp = "") THEN << >> ELSE <<Shown(AlertNoKeys(username))>>
    ELSE IF timeout THEN <<Shown(AlertNoUser(username))>>
                    ELSE <<Shown(AlertTimeout)>>

\* the alerts the completion handler shows (lines 45-58)
DoneAlerts(username, resp, success, timeout) ==
  IF success
    THEN IF ~(resp = "") THEN << >> ELSE <<Shown(AlertNoKeys(username))>>
    ELSE IF timeout THEN <<Shown(AlertTimeout)>>
                    ELSE <<Shown(AlertNoUser(username))>>

\* the completion handler with refresh() inside the success branch only
RequestDone_refreshOnSuccess ==
  \E i \in 1..Len(requests), resp \in Responses, success \in BOOLEAN, timeout \in BOOLEAN :
    LET username == requests[i].username
        pnew == DoneParams(username, resp, success) IN
    /\ params' = pnew
    /\ alert' = DoneAlerts(username, resp, success, timeout)
    /\ text' = IF success THEN refresh(pnew).text ELSE text
    /\ username_label' = IF success THEN refresh(pnew).username_label ELSE username_label
    /\ enabled' = IF success THEN refresh(pnew).enabled ELSE enabled
    /\ requests' = SubSeq(requests, 1, i - 1) \o SubSeq(requests, i + 1, Len(requests))
    /\ UNCHANGED sent
    /\ last' = [op |-> "requestDone", prompted |-> FALSE,
                in |-> [answer |-> "", username |-> username, resp |-> resp,
                        success |-> success, timeout |-> timeout],
                pre |-> Pre]

\* HttpRequest::requestDone of request i, delivering (resp, success) with
\* request->timeout() = timeout; the handler ends with refresh() and
\* request->deleteLater()
RequestDone ==
  \E i \in 1..Len(requests), resp \in Responses, success \in BOOLEAN, timeout \in BOOLEAN :
    LET username == requests[i].username
        pnew == DoneParams(username, resp, success) IN
    /\ params' = pnew
    /\ alert' = DoneAlerts(username, resp, success, timeout)
    /\ text' = refresh(pnew).text
    /\ username_label' = refresh(pnew).username_label
    /\ enabled' = refresh(pnew).enabled
    /\ requests' = SubSeq(requests, 1, i - 1) \o SubSeq(requests, i + 1, Len(requests))
    /\ UNCHANGED sent
    /\ last' = [op |-> "requestDone", prompted |-> FALSE,
                in |-> [answer |-> "", username |-> username, resp |-> resp,
                        success |-> success, timeout |-> timeout],
                pre |-> Pre]

\* ---------------------------------------------------------- specifications
Next == Click \/ RequestDone

\* the widget as built: constructed over any store content, then driven by
\* every handler that is enabled
SpecAll == Init /\ [][Next]_vars

\* no behaviour of SpecAll ever has a request in flight (NoRequestFromInit),
\* so RequestDone is never enabled in it and its steps are Click steps
Spec == Init /\ [][Click]_vars

\* the state in which getUserKeys(username) has just run at line 18: the
\* clicked handler has set the Loading text and disabled the control (lines
\* 16-17) and the request is in flight, over any store content
InitFetch ==
  \E username \in Names :
    /\ params \in StoreContents
    /\ text = TextLoading
    /\ username_label = refresh(params).username_label
    /\ enabled = FALSE
    /\ requests = <<[username |-> username, url |-> KeysUrl(username)]>>
    /\ sent = <<KeysUrl(username)>>
    /\ alert = << >>
    /\ last = [op |-> "getUserKeys", prompted |-> TRUE,
               in |-> [NoInput EXCEPT !.answer = username, !.username = username],
               pre |-> [params |-> params, text |-> TextLoading,
                        username_label |-> refresh(params).username_label,
                        enabled |-> FALSE, requests |-> << >>, sent |-> << >>]]

SpecFetch == InitFetch /\ [][Next]_vars

\* SpecFetch with the HTTP service delivering every completion callback
FairFetch == SpecFetch /\ WF_vars(RequestDone)

\* SshControl::refresh run on its own: it reads the store and sets the display
Refresh ==
  /\ text' = refresh(params).text
  /\ username_label' = refresh(params).username_label
  /\ enabled' = refresh(params).enabled
  /\ UNCHANGED <<params, requests, sent>>
  /\ alert' = << >>
  /\ last' = [op |-> "refresh", prompted |-> FALSE, in |-> NoInput, pre |-> Pre]

\* the texts the button can carry: the constructor's empty text and the
\* three the handlers set
Texts == {"", TextAdd, TextRemove, TextLoading}

\* refresh() as an operation of its own: any store content under any display,
\* then refresh() called again and again
InitRefresh ==
  /\ params \in StoreContents
  /\ text \in Texts
  /\ username_label \in Answers
  /\ enabled \in BOOLEAN
  /\ requests = << >>
  /\ sent = << >>
  /\ alert = << >>
  /\ last = [op |-> "construct", prompted |-> FALSE, in |-> NoInput, pre |-> NoPre]

SpecRefresh == InitRefresh /\ [][Refresh]_vars

\* ------------------------------------------------------------------ claims
\* in the widget as built no GET is ever sent and no request is in flight
NoRequestFromInit == requests = << >> /\ sent = << >>

StoredKeys == ParamsGet(params, KeySshKeys)
StoredUsername == ParamsGet(params, KeyUsername)

\* C1: after refresh() (the one run at construction and the one ending the
\* clicked handler's remove branch) the control shows the Remove text with the
\* stored GithubUsername exactly when GithubSshKeys is non-empty, and otherwise
\* the Add text with an empty username label; it is enabled in both cases.
C1_RefreshShowsStore ==
  /\ (StoredKeys # "" => text = TextRemove /\ username_label = StoredUsername)
  /\ (StoredKeys = "" => text = TextAdd /\ username_label = "")
  /\ (text = TextRemove => StoredKeys # "")
  /\ enabled

C1_Witness ==
  /\ last.op = "construct"
  /\ StoredKeys # ""
  /\ text = TextRemove
  /\ username_label = NamePool[1]

\* the last handler was a click on the control showing the Add text
ClickedInAdd == last.op = "click" /\ last.pre.text = TextAdd /\ last.pre.enabled
\* the last handler was a click on the control showing the Remove text
ClickedInRemove == last.op = "click" /\ last.pre.text = TextRemove /\ last.pre.enabled
\* the last handler was a request completion
Completed == last.op = "requestDone"
Success == last.in.success /\ last.in.resp # ""

\* C2: a click on the control in the Add state that refresh() produced, with
\* a non-empty username entered, leaves the Loading text, the control
\* disabled and one more request in flight, for that username.
C2_ClickAddStartsFetch ==
  (ClickedInAdd /\ last.pre.username_label = "" /\ last.in.answer # "")
    => /\ text = TextLoading
       /\ ~enabled
       /\ Len(requests) = Len(last.pre.requests) + 1
       /\ requests[Len(requests)].username = last.in.answer

\* the widget as built never writes a key: the store only loses keys
NeverPutFromInit == [][DOMAIN params' \subseteq DOMAIN params]_vars

\* C3: from an empty store, a click in the Add state with username u entered
\* starts the fetch of https://github.com/u.keys whose successful completion
\* links the account; the control is not back in the Add state with nothing
\* sent.
C3_LinkFromEmptyStore ==
  (last.op = "click" /\ last.pre.params = << >> /\ last.in.answer \in Names)
    => /\ sent # << >>
       /\ sent[Len(sent)] = "https://github.com/" \o last.in.answer \o ".keys"
       /\ text # TextAdd

\* C4: a click in the Remove state leaves neither key in the store and the
\* control in the Add state with an empty username label, enabled, without a
\* prompt, a request or an alert.
C4_ClickRemoveUnlinks ==
  ClickedInRemove
    => /\ DOMAIN params = {}
       /\ text = TextAdd
       /\ username_label = ""
       /\ enabled
       /\ ~last.prompted
       /\ requests = last.pre.requests
       /\ sent = last.pre.sent
       /\ alert = << >>

C4_Witness ==
  /\ ClickedInRemove
  /\ DOMAIN last.pre.params = ParamKeys
  /\ last.pre.username_label = NamePool[1]
  /\ text = TextAdd

\* C5: a click in the Add state answered by cancel or an empty username
\* changes neither the store nor the display, sends nothing and leaves the
\* control enabled.
C5_CancelChangesNothing ==
  (ClickedInAdd /\ last.in.answer = "")
    => /\ params = last.pre.params
       /\ text = last.pre.text
       /\ username_label = last.pre.username_label
       /\ sent = last.pre.sent
       /\ requests = last.pre.requests
       /\ enabled

\* C6: a completion that is not a success with a non-empty body leaves the
\* store as it was when the callback started.
C6_FailurePersistsNothing ==
  (Completed /\ ~Success) => params = last.pre.params

C6_Witness ==
  /\ Completed
  /\ last.in.success
  /\ last.in.resp = ""
  /\ DOMAIN params = {KeyUsername}

\* the username of the one fetch of SpecFetch, read back from the URL sent
FetchedName == CHOOSE u \in Names : sent = <<"https://github.com/" \o u \o ".keys">>
AlertMsgs == [i \in 1..Len(alert) |-> alert[i].msg]

\* C7: the alert of a completion is fixed by the outcome: none on success
\* with a body, the no-keys message on success with an empty body, the
\* timeout message on a failure with the timeout flag, the doesn't-exist
\* message on any other failure, each naming the username of the fetch.
C7_AlertByOutcome ==
  Completed =>
    /\ (last.in.success /\ last.in.resp # "" => AlertMsgs = << >>)
    /\ (last.in.success /\ last.in.resp = ""
          => AlertMsgs = <<"Username '" \o FetchedName \o "' has no keys on GitHub">>)
    /\ (~last.in.success /\ last.in.timeout => AlertMsgs = <<"Request timed out">>)
    /\ (~last.in.success /\ ~last.in.timeout
          => AlertMsgs = <<"Username '" \o FetchedName \o "' doesn't exist on GitHub">>)

C7_Witness ==
  /\ Completed
  /\ ~last.in.success
  /\ last.in.timeout
  /\ AlertMsgs = <<"Request timed out">>

\* C8: once a fetch is started (Loading text, control disabled, request in
\* flight) and the completion callback is delivered, the control is enabled
\* again showing the Add or the Remove text.
C8_FetchReenables ==
  (text = TextLoading /\ ~enabled /\ requests # << >>)
    ~> (enabled /\ text \in {TextAdd, TextRemove} /\ requests = << >>)

C8_Witness ==
  /\ Completed
  /\ ~last.pre.enabled
  /\ last.pre.text = TextLoading
  /\ ~last.in.success
  /\ enabled
  /\ text = TextAdd

\* C9: while a request is in flight the control is disabled and shows the
\* Loading text, it is the only request, and the only handler that runs is
\* its completion callback, so no click is accepted and the store is not
\* touched before the callback.
C9_NothingRunsDuringFetch ==
  [][requests # << >>
       => /\ Len(requests) = 1
          /\ ~enabled
          /\ text = TextLoading
          /\ last'.op = "requestDone"
          /\ last'.pre.params = params
          /\ Len(requests') = 0]_vars

C9_Witness ==
  /\ Completed
  /\ Len(last.pre.requests) = 1
  /\ last.pre.text = TextLoading
  /\ requests = << >>
  /\ Len(sent) = 1

\* both keys present, or both absent
Paired(p) == (KeyUsername \in DOMAIN p) <=> (KeySshKeys \in DOMAIN p)

\* C10: a handler that starts with both keys present or both absent ends
\* with both present or both absent.
C10_PairPreserved == [][Paired(params) => Paired(params')]_vars

C10_Witness ==
  /\ Completed
  /\ Success
  /\ last.pre.params = << >>
  /\ DOMAIN params = ParamKeys

\* C11: a refresh() that follows a refresh() leaves the text, the username
\* label and the enabled flag as the first one left them, and no refresh()
\* changes the store.
C11_RefreshIdempotent ==
  [][/\ (last'.op = "refresh" => params' = params)
     /\ (last.op = "refresh" /\ last'.op = "refresh"
           => /\ text' = text
              /\ username_label' = username_label
              /\ enabled' = enabled)]_vars

C11_Witness ==
  /\ last.op = "refresh"
  /\ last.pre.text = TextRemove
  /\ last.pre.username_label = NamePool[1]
  /\ last.pre.enabled
  /\ text = TextRemove
  /\ username_label = NamePool[1]
  /\ StoredKeys # ""

\* the fetch that completed last was started with the control unlinked:
\* GithubSshKeys empty in the store and the username label empty
StartedUnlinked ==
  /\ Completed
  /\ ParamsGet(last.pre.params, KeySshKeys) = ""
  /\ last.pre.username_label = ""
  /\ last.pre.text = TextLoading

\* C12: a fetch started from the unlinked state that completes with an empty
\* body or a failure leaves the Add text, an empty username label and the
\* control enabled, never the Remove text.
C12_FailureReturnsUnlinked ==
  (StartedUnlinked /\ ~Success)
    => /\ text = TextAdd
       /\ username_label = ""
       /\ enabled
       /\ StoredKeys = ""

C12_Witness ==
  /\ StartedUnlinked
  /\ ~last.in.success
  /\ last.in.resp # ""
  /\ StoredUsername = NamePool[2]
  /\ text = TextAdd

\* a completion sends nothing and takes its request out of flight
NoResend ==
  Completed => sent = last.pre.sent /\ Len(requests) = Len(last.pre.requests) - 1

\* C13: a click in the Add state with a non-empty username u sends exactly
\* one GET, to https://github.com/u.keys; no other click and no completion
\* sends anything.
C13_OneGetPerClick ==
  /\ (ClickedInAdd /\ last.in.answer \in Names
        => sent = Append(last.pre.sent, "https://github.com/" \o last.in.answer \o ".keys"))
  /\ (last.op = "click" /\ ~(ClickedInAdd /\ last.in.answer \in Names)
        => sent = last.pre.sent)
  /\ NoResend

\* C14: a completion either persists both keys and shows no alert, or shows
\* exactly one alert and persists nothing; the alert is shown over the
\* disabled control with the Loading text, and the handler ends with the
\* display refresh() gives for the resulting store.
C14_OneOutcomeThenRefresh ==
  Completed =>
    /\ (Success => /\ alert = << >>
                   /\ DOMAIN params = ParamKeys
                   /\ params[KeyUsername] = last.in.username
                   /\ params[KeySshKeys] = last.in.resp)
    /\ (~Success => Len(alert) = 1 /\ params = last.pre.params)
    /\ \A i \in 1..Len(alert) : alert[i].text = TextLoading /\ ~alert[i].enabled
    /\ enabled
    /\ text = (IF StoredKeys # "" THEN TextRemove ELSE TextAdd)

C14_Witness ==
  /\ Completed
  /\ last.in.success
  /\ last.in.resp = ""
  /\ Len(alert) = 1
  /\ alert[1].text = TextLoading
  /\ text = TextRemove

C16_DisabledIffLoading ==
  /\ text \in {TextAdd, TextRemove, TextLoading}
  /\ (~enabled <=> text = TextLoading)
  /\ (text = TextLoading <=> Len(requests) = 1)
  /\ (text \in {TextAdd, TextRemove} => enabled /\ requests = << >>)

C16_Witness ==
  /\ Completed
  /\ ~last.pre.enabled
  /\ Len(last.pre.requests) = 1
  /\ ~last.in.success
  /\ ~last.in.timeout
  /\ text = TextRemove
  /\ enabled
  /\ requests = << >>

\* key k holds a value the last handler wrote: it is new, or its value changed
Written(k) ==
  /\ k \in DOMAIN params
  /\ (k \notin DOMAIN last.pre.params \/ params[k] # last.pre.params[k])

\* the store was empty when the one fetch was started
StartedEmpty == last.op \in {"getUserKeys", "requestDone"} /\ last.pre.params = << >>

\* C17: a completion writes no empty value: what it writes is the non-empty
\* body under GithubSshKeys and the non-empty username of the fetch under
\* GithubUsername; so, from an empty store, a present GithubSshKeys is
\* non-empty and comes with the username of the successful fetch.
C17_NoEmptyWrite ==
  /\ (Completed =>
        /\ \A k \in ParamKeys : Written(k) => params[k] # ""
        /\ (Written(KeySshKeys) => params[KeySshKeys] = last.in.resp)
        /\ (Written(KeyUsername) =>
              params[KeyUsername] = FetchedName /\ last.in.username = FetchedName)
        /\ (Success => StoredKeys = last.in.resp /\ StoredUsername = FetchedName))
  /\ (last.op = "click" => DOMAIN params = {})
  /\ (StartedEmpty /\ KeySshKeys \in DOMAIN params
        => /\ params[KeySshKeys] # ""
           /\ KeyUsername \in DOMAIN params
           /\ params[KeyUsername] = FetchedName
           /\ Len(FetchedName) > 0)

C17_Witness ==
  /\ Completed
  /\ Success
  /\ last.pre.params = << >>
  /\ params[KeySshKeys] = BodyPool[2]
  /\ params[KeyUsername] = NamePool[2]

====
